---- MODULE Spec2Model ----
(***************************************************************************)
(* MappedBuffer (src/buffers/mmap.rs): a read-only view over a byte region *)
(* owned by the capture device, paired with per-frame metadata.            *)
(*                                                                         *)
(* The state is the producer's memory regions, the live MappedBuffer       *)
(* values held by the application, and the value returned by the last      *)
(* call.  A `&'a [u8]` is modelled as what it is: a fat pointer (region,   *)
(* len); the bytes seen through it are read from the region's memory.      *)
(* Every method body is a single read of immutable fields, so each call is *)
(* one atomic step and concurrent holders are interleavings of such steps. *)
(***************************************************************************)
EXTENDS Integers, Sequences, FiniteSets, TLC

VARIABLES
  mem,     \* mem[r]: the bytes of region r (owned by the producer)
  alive,   \* alive[r]: region r is still mapped (not reclaimed)
  views,   \* views[v]: the MappedBuffer held in slot v, or NoView
  built,   \* built[v]: the arguments new() was called with for views[v]
  first,   \* first[v]: the bytes of the first data() read of views[v], as a set
  ret      \* the last call: who made it, which operation, what it returned
           \* (for a drop: the region whose borrow ended)

vars == <<mem, alive, views, built, first, ret>>

\* ---------------------------------------------------------------- bounds
MaxLen == 2

\* ---------------------------------------------------------------- inputs
Regions == {"r1", "r2"}
Views == {"v1", "v2"}
Byte == {1, 255}

\* A u32 is kept at its full width as two 16-bit halves: its value is
\* hi * 2^16 + lo.  The model checker's own integers are narrower than u32.
U16Max == 65535
U32(hi, lo) == [hi |-> hi, lo |-> lo]
IsU32(x) == x.hi \in 0..U16Max /\ x.lo \in 0..U16Max
U32Zero == U32(0, 0)
U32Max == U32(U16Max, U16Max)
U32Succ(x) ==
  IF x.lo < U16Max THEN U32(x.hi, x.lo + 1)
  ELSE IF x.hi < U16Max THEN U32(x.hi + 1, 0)
  ELSE U32Zero

Timestamp(sec, usec) == [sec |-> sec, usec |-> usec]

SeqIn == {U32Zero, U32(0, 7), U32Max}
TsIn == {Timestamp(0, 0), Timestamp(100, 250000), Timestamp(0, 999999)}
FlagsIn == {U32Zero, U32(0, 1)}

\* The frames the producer hands out: every field takes several values, and
\* two of the frames differ in every field.
FramesIn ==
  { [seq |-> U32Zero,   ts |-> Timestamp(0, 0),        flags |-> U32Zero],
    [seq |-> U32(0, 7), ts |-> Timestamp(100, 250000), flags |-> U32Zero],
    [seq |-> U32Max,    ts |-> Timestamp(0, 999999),   flags |-> U32(0, 1)] }

RECURSIVE BytesOfLen(_)
BytesOfLen(n) ==
  IF n = 0 THEN {<<>>}
  ELSE {Append(b, x) : b \in BytesOfLen(n - 1), x \in Byte}

ByteRegions == UNION {BytesOfLen(n) : n \in 0..MaxLen}

NoView == [tag |-> "none"]
NoBuilt == [tag |-> "none"]
NoRet == [view |-> "none", op |-> "none", val |-> 0, nth |-> 0]

\* ------------------------------------------------------- references
\* `&mem[r][..]`: the shared slice reference to the whole of region r.
SliceOf(r) == [region |-> r, len |-> Len(mem[r])]

\* The bytes seen through a slice reference while its region is mapped.
Deref(p) == SubSeq(mem[p.region], 1, p.len)

\* The bytes a read through p can yield: the region's bytes while it is mapped;
\* after the region was reclaimed the read is undefined, any bytes may come back.
ReadThrough(p) == IF alive[p.region] THEN {Deref(p)} ELSE BytesOfLen(p.len)

Live(v) == views[v] # NoView

\* The shared borrow `view: &'a [u8]` kept by every live MappedBuffer<'a>:
\* the holders whose borrow of region r has not ended.
\* Faulty variant: the view keeps no borrow (a raw pointer instead of `&'a [u8]`).
NoBorrowers(r) == {}
Borrowers(r) == {v \in Views : Live(v) /\ views[v].view.region = r}

\* --------------------------------------------------- MappedBuffer
\* Faulty variant: sequence and flags stored in each other's field.
newSwapped(view, s, ts, fl) ==
  [flags |-> s, timestamp |-> ts, sequence |-> fl, view |-> view]
new(view, s, ts, fl) ==
  [flags |-> fl, timestamp |-> ts, sequence |-> s, view |-> view]

\* Faulty variant: the returned slice is one byte short.
dataTail(self) ==
  [region |-> self.view.region,
   len |-> IF self.view.len = 0 THEN 0 ELSE self.view.len - 1]
data(self) == self.view

len(self) == self.view.len

\* Faulty variant: a one-byte region counts as empty.
is_emptyOffByOne(self) == self.view.len <= 1
is_empty(self) == self.view.len = 0

seq(self) == self.sequence

timestamp(self) == self.timestamp

flags(self) == self.flags

\* ------------------------------------------------------------ Init
Init ==
  /\ mem \in [Regions -> ByteRegions]
  /\ alive = [r \in Regions |-> TRUE]
  /\ views = [v \in Views |-> NoView]
  /\ built = [v \in Views |-> NoBuilt]
  /\ first = [v \in Views |-> {}]
  /\ ret = NoRet

\* --------------------------------------------------------- actions
\* let buf = MappedBuffer::new(&region, s, ts, fl), stored in slot v.
\* Faulty variant: construction refuses the empty region.
NewNonEmpty(v, r, s, ts, fl) ==
  /\ ~Live(v)
  /\ alive[r]
  /\ Len(mem[r]) > 0
  /\ views' = [views EXCEPT ![v] = new(SliceOf(r), s, ts, fl)]
  /\ built' = [built EXCEPT ![v] =
       [bytes |-> mem[r], region |-> r, seq |-> s, ts |-> ts, flags |-> fl]]
  /\ first' = [first EXCEPT ![v] = {}]
  /\ ret' = [view |-> v, op |-> "new", val |-> 0, nth |-> 0]
  /\ UNCHANGED <<mem, alive>>
\* Faulty variant: construction re-points every live view at the new region.
NewShared(v, r, s, ts, fl) ==
  /\ ~Live(v)
  /\ alive[r]
  /\ views' = [w \in Views |->
       IF w = v THEN new(SliceOf(r), s, ts, fl)
       ELSE IF Live(w) THEN [views[w] EXCEPT !.view = SliceOf(r)]
       ELSE views[w]]
  /\ built' = [built EXCEPT ![v] =
       [bytes |-> mem[r], region |-> r, seq |-> s, ts |-> ts, flags |-> fl]]
  /\ first' = [first EXCEPT ![v] = {}]
  /\ ret' = [view |-> v, op |-> "new", val |-> 0, nth |-> 0]
  /\ UNCHANGED <<mem, alive>>
New(v, r, s, ts, fl) ==
  /\ ~Live(v)
  /\ alive[r]
  /\ views' = [views EXCEPT ![v] = new(SliceOf(r), s, ts, fl)]
  /\ built' = [built EXCEPT ![v] =
       [bytes |-> mem[r], region |-> r, seq |-> s, ts |-> ts, flags |-> fl]]
  /\ first' = [first EXCEPT ![v] = {}]
  /\ ret' = [view |-> v, op |-> "new", val |-> 0, nth |-> 0]
  /\ UNCHANGED <<mem, alive>>

\* buf.data(), and the caller reading the bytes behind the returned slice.
\* Faulty variant: the read writes zeroes through the pointer.
CallDataScrub(v) ==
  /\ Live(v)
  /\ \E bytes \in ReadThrough(data(views[v])) :
       /\ ret' = [view |-> v, op |-> "data", val |-> bytes,
                  nth |-> IF first[v] = {} THEN 1 ELSE 2]
       /\ first' = [first EXCEPT ![v] = IF first[v] = {} THEN {bytes} ELSE first[v]]
  /\ mem' = [mem EXCEPT ![views[v].view.region] = [i \in 1..Len(@) |-> 0]]
  /\ UNCHANGED <<alive, views, built>>
CallData(v) ==
  /\ Live(v)
  /\ \E bytes \in ReadThrough(data(views[v])) :
       /\ ret' = [view |-> v, op |-> "data", val |-> bytes,
                  nth |-> IF first[v] = {} THEN 1 ELSE 2]
       /\ first' = [first EXCEPT ![v] = IF first[v] = {} THEN {bytes} ELSE first[v]]
  /\ UNCHANGED <<mem, alive, views, built>>

\* buf.len()
CallLen(v) ==
  /\ Live(v)
  /\ ret' = [view |-> v, op |-> "len", val |-> len(views[v]), nth |-> 0]
  /\ UNCHANGED <<mem, alive, views, built, first>>

\* buf.is_empty()
CallIsEmpty(v) ==
  /\ Live(v)
  /\ ret' = [view |-> v, op |-> "is_empty", val |-> is_empty(views[v]), nth |-> 0]
  /\ UNCHANGED <<mem, alive, views, built, first>>

\* buf.seq()
\* Faulty variant: the call advances the stored counter.
CallSeqBump(v) ==
  /\ Live(v)
  /\ ret' = [view |-> v, op |-> "seq", val |-> seq(views[v]), nth |-> 0]
  /\ views' = [views EXCEPT ![v].sequence = U32Succ(@)]
  /\ UNCHANGED <<mem, alive, built, first>>
CallSeq(v) ==
  /\ Live(v)
  /\ ret' = [view |-> v, op |-> "seq", val |-> seq(views[v]), nth |-> 0]
  /\ UNCHANGED <<mem, alive, views, built, first>>

\* buf.timestamp()
CallTimestamp(v) ==
  /\ Live(v)
  /\ ret' = [view |-> v, op |-> "timestamp", val |-> timestamp(views[v]), nth |-> 0]
  /\ UNCHANGED <<mem, alive, views, built, first>>

\* buf.flags()
\* Faulty variant: read-and-clear.
CallFlagsClear(v) ==
  /\ Live(v)
  /\ ret' = [view |-> v, op |-> "flags", val |-> flags(views[v]), nth |-> 0]
  /\ views' = [views EXCEPT ![v].flags = U32Zero]
  /\ UNCHANGED <<mem, alive, built, first>>
CallFlags(v) ==
  /\ Live(v)
  /\ ret' = [view |-> v, op |-> "flags", val |-> flags(views[v]), nth |-> 0]
  /\ UNCHANGED <<mem, alive, views, built, first>>

\* buf goes out of scope.  MappedBuffer has no Drop impl and owns nothing but
\* plain values and a shared reference: only the value itself goes away.
\* Faulty variant: the view unmaps its region when it goes away.
DropFreeing(v) ==
  /\ Live(v)
  /\ views' = [views EXCEPT ![v] = NoView]
  /\ built' = [built EXCEPT ![v] = NoBuilt]
  /\ first' = [first EXCEPT ![v] = {}]
  /\ ret' = [view |-> v, op |-> "drop", val |-> views[v].view.region, nth |-> 0]
  /\ alive' = [alive EXCEPT ![views[v].view.region] = FALSE]
  /\ mem' = [mem EXCEPT ![views[v].view.region] = <<>>]
Drop(v) ==
  /\ Live(v)
  /\ views' = [views EXCEPT ![v] = NoView]
  /\ built' = [built EXCEPT ![v] = NoBuilt]
  /\ first' = [first EXCEPT ![v] = {}]
  /\ ret' = [view |-> v, op |-> "drop", val |-> views[v].view.region, nth |-> 0]
  /\ UNCHANGED <<mem, alive>>

\* The producer writes the next frame into slot r.  It needs the region
\* exclusively, which the outstanding shared borrows rule out.
Recycle(r, b) ==
  /\ alive[r]
  /\ Borrowers(r) = {}
  /\ b # mem[r]
  /\ mem' = [mem EXCEPT ![r] = b]
  /\ UNCHANGED <<alive, views, built, first, ret>>

\* The producer unmaps region r.
Unmap(r) ==
  /\ alive[r]
  /\ Borrowers(r) = {}
  /\ alive' = [alive EXCEPT ![r] = FALSE]
  /\ mem' = [mem EXCEPT ![r] = <<>>]
  /\ UNCHANGED <<views, built, first, ret>>

Accessor(v) ==
  \/ CallData(v)
  \/ CallLen(v)
  \/ CallIsEmpty(v)
  \/ CallSeq(v)
  \/ CallTimestamp(v)
  \/ CallFlags(v)

Construct(v) ==
  \E r \in Regions, m \in FramesIn : New(v, r, m.seq, m.ts, m.flags)

Next ==
  \/ \E v \in Views : Construct(v)
  \/ \E v \in Views : CallData(v)
  \/ \E v \in Views : CallLen(v)
  \/ \E v \in Views : CallIsEmpty(v)
  \/ \E v \in Views : CallSeq(v)
  \/ \E v \in Views : CallTimestamp(v)
  \/ \E v \in Views : CallFlags(v)
  \/ \E v \in Views : Drop(v)
  \/ \E r \in Regions, b \in ByteRegions : Recycle(r, b)
  \/ \E r \in Regions : Unmap(r)

Spec == Init /\ [][Next]_vars

TypeOK ==
  /\ mem \in [Regions -> ByteRegions]
  /\ alive \in [Regions -> BOOLEAN]
  /\ \A v \in Views : Live(v) =>
       /\ IsU32(views[v].sequence)
       /\ IsU32(views[v].flags)
       /\ views[v].view.region \in Regions
       /\ views[v].view.len \in 0..MaxLen

\* ================================================================ claims
RegionOf(v) == views[v].view.region

\* What the holder of views[v] gets from each accessor in the current state.
Seen(v) ==
  [data |-> ReadThrough(data(views[v])), len |-> len(views[v]),
   is_empty |-> is_empty(views[v]), seq |-> seq(views[v]),
   timestamp |-> timestamp(views[v]), flags |-> flags(views[v])]

\* C1: after MappedBuffer::new(b, s, t, f), seq() returns exactly s,
\* timestamp() exactly t and flags() exactly f, for every live view and for
\* every value such a call actually returned.
C1_MetadataRoundTrip ==
  /\ \A v \in Views : Live(v) =>
       /\ seq(views[v]) = built[v].seq
       /\ timestamp(views[v]) = built[v].ts
       /\ flags(views[v]) = built[v].flags
  /\ ret.op = "seq" => ret.val = built[ret.view].seq
  /\ ret.op = "timestamp" => ret.val = built[ret.view].ts
  /\ ret.op = "flags" => ret.val = built[ret.view].flags

\* A flags() call has returned on a view built with three pairwise different
\* metadata values.
C1_Witness ==
  /\ ret.op = "flags"
  /\ built[ret.view].seq = U32Max
  /\ built[ret.view].flags = U32(0, 1)
  /\ built[ret.view].ts = Timestamp(0, 999999)

\* C2: a view over region b reports len() equal to the number of bytes of b
\* (the empty region included), and is_empty() is true exactly when len() = 0.
C2_LenAndIsEmpty ==
  /\ \A v \in Views : Live(v) =>
       /\ len(views[v]) = Len(built[v].bytes)
       /\ is_empty(views[v]) <=> (len(views[v]) = 0)
  /\ ret.op = "len" => ret.val = Len(built[ret.view].bytes)
  /\ ret.op = "is_empty" => (ret.val <=> (built[ret.view].bytes = <<>>))

\* is_empty() has returned true on a view over the empty region.
C2_Witness ==
  /\ ret.op = "is_empty"
  /\ ret.val
  /\ built[ret.view].bytes = <<>>

\* C3: data() yields a byte sequence identical to b in length, order and
\* content, and every data() call on a view yields what its first call did.
C3_DataIdentical ==
  /\ \A v \in Views : Live(v) => ReadThrough(data(views[v])) = {built[v].bytes}
  /\ ret.op = "data" =>
       /\ ret.val = built[ret.view].bytes
       /\ first[ret.view] = {ret.val}

\* A second data() call has returned on a view over a two-byte region whose
\* bytes differ, so that order is observable.
C3_Witness ==
  /\ ret.op = "data"
  /\ ret.nth = 2
  /\ Len(ret.val) >= 2
  /\ ret.val[1] # ret.val[2]

ApiStep == \E v \in Views : Construct(v) \/ Accessor(v)

\* C4: no call of new, data, len, is_empty, seq, timestamp or flags changes
\* any region; while a view lives its region holds the bytes it held at
\* construction, and data() still yields what the first read did.
C4_ApiNeverMutatesRegion ==
  /\ [][ApiStep => (mem' = mem /\ alive' = alive)]_vars
  /\ [](\A v \in Views : Live(v) =>
          /\ mem[RegionOf(v)] = built[v].bytes
          /\ first[v] # {} => first[v] = ReadThrough(data(views[v])))

\* A view over a non-empty region has been read with data() and then asked
\* for its flags.
C4_Witness ==
  /\ ret.op = "flags"
  /\ first[ret.view] # {}
  /\ built[ret.view].bytes # <<>>

SameFrame(v, w) ==
  /\ built[v].seq = built[w].seq
  /\ built[v].ts = built[w].ts
  /\ built[v].flags = built[w].flags

\* C6: two views over different regions built with the same metadata report
\* equal seq(), timestamp() and flags(), each one's data(), len() and
\* is_empty() are those of its own region, and constructing or reading one
\* view leaves what the other returns unchanged.
C6_ViewsIndependent ==
  /\ [](\A v, w \in Views :
          (v # w /\ Live(v) /\ Live(w) /\ built[v].region # built[w].region
             /\ SameFrame(v, w)) =>
            /\ seq(views[v]) = seq(views[w])
            /\ timestamp(views[v]) = timestamp(views[w])
            /\ flags(views[v]) = flags(views[w])
            /\ RegionOf(v) = built[v].region
            /\ ReadThrough(data(views[v])) = {mem[built[v].region]}
            /\ len(views[v]) = Len(mem[built[v].region])
            /\ is_empty(views[v]) <=> (mem[built[v].region] = <<>>))
  /\ [][\A v, w \in Views :
          (v # w /\ (Construct(v) \/ Accessor(v)) /\ Live(w)) =>
            (views'[w] # NoView /\ Seen(w)' = Seen(w))]_vars

\* Two views with the same metadata are live over two regions holding
\* different bytes, and one of them has just been read.
C6_Witness ==
  /\ \A v \in Views : Live(v)
  /\ \E v, w \in Views :
       /\ built[v].region # built[w].region
       /\ SameFrame(v, w)
       /\ built[v].bytes # built[w].bytes
  /\ ret.op = "data"

\* What an accessor returned is a value of its result type.
WellTyped(op, val) ==
  /\ op = "data" => val \in ByteRegions
  /\ op = "len" => val \in Nat
  /\ op = "is_empty" => val \in BOOLEAN
  /\ op = "seq" => IsU32(val)
  /\ op = "timestamp" => (DOMAIN val = {"sec", "usec"} /\ val.sec \in Int /\ val.usec \in Int)
  /\ op = "flags" => IsU32(val)

\* C7: no operation has an error outcome: new can be called with every
\* sequence value (0 and 2^32 - 1 included), every timestamp, every flags
\* value and every mapped region (the empty one included), each of the six
\* accessors can be called on every constructed view, and what an accessor
\* returned is a value of its result type.
C7_NoErrorOutcome ==
  /\ \A v \in Views : ~Live(v) =>
       \A r \in Regions : alive[r] =>
         \A s \in SeqIn, ts \in TsIn, fl \in FlagsIn : ENABLED New(v, r, s, ts, fl)
  /\ \A v \in Views : Live(v) =>
       /\ ENABLED CallData(v)
       /\ ENABLED CallLen(v)
       /\ ENABLED CallIsEmpty(v)
       /\ ENABLED CallSeq(v)
       /\ ENABLED CallTimestamp(v)
       /\ ENABLED CallFlags(v)
  /\ WellTyped(ret.op, ret.val)

\* len() has returned on a view built over the empty region with sequence
\* number 2^32 - 1.
C7_Witness ==
  /\ ret.op = "len"
  /\ built[ret.view].bytes = <<>>
  /\ built[ret.view].seq = U32Max

\* C8: when several holders have views over the same region, in every
\* interleaving of their calls the region holds its original bytes, every
\* view is the value new() built, and the call that has just returned gave
\* the original bytes or that view's construction values.
C8_ConcurrentReads ==
  \A v, w \in Views :
    (v # w /\ Live(v) /\ Live(w) /\ RegionOf(v) = RegionOf(w)) =>
      /\ mem[RegionOf(v)] = built[v].bytes
      /\ views[v] = new(SliceOf(built[v].region), built[v].seq, built[v].ts, built[v].flags)
      /\ (ret.view = v /\ ret.op = "data") => ret.val = built[v].bytes
      /\ (ret.view = v /\ ret.op = "len") => ret.val = Len(built[v].bytes)
      /\ (ret.view = v /\ ret.op = "is_empty") => (ret.val <=> (built[v].bytes = <<>>))
      /\ (ret.view = v /\ ret.op = "seq") => ret.val = built[v].seq
      /\ (ret.view = v /\ ret.op = "timestamp") => ret.val = built[v].ts
      /\ (ret.view = v /\ ret.op = "flags") => ret.val = built[v].flags

\* Two holders have views with different metadata over the same non-empty
\* region, both have read it, and a metadata call has just returned.
C8_Witness ==
  /\ \A v \in Views : Live(v) /\ first[v] # {}
  /\ \E v, w \in Views :
       /\ v # w
       /\ RegionOf(v) = RegionOf(w)
       /\ built[v].flags # built[w].flags
       /\ built[v].bytes # <<>>
  /\ ret.op = "flags"

\* C9: a view's stored sequence, timestamp and flags never change while the
\* view lives, so seq(), timestamp() and flags() return the same values on
\* every call.
C9_MetadataFixed ==
  [][\A v \in Views : (Live(v) /\ views'[v] # NoView) =>
       /\ views'[v].sequence = views[v].sequence
       /\ views'[v].timestamp = views[v].timestamp
       /\ views'[v].flags = views[v].flags
       /\ seq(views[v])' = seq(views[v])
       /\ timestamp(views[v])' = timestamp(views[v])
       /\ flags(views[v])' = flags(views[v])]_vars

\* seq() has returned on a view that was read before, with a sequence
\* number at the top of the u32 range.
C9_Witness ==
  /\ ret.op = "seq"
  /\ ret.val = U32Max
  /\ first[ret.view] # {}

\* C10: the step in which a view over region b goes away leaves b mapped
\* with the same bytes, leaves every other view as it was, and leaves what
\* every other live view returns unchanged.
C10_DropReleasesOnlyView ==
  [][\A v \in Views : (Live(v) /\ views'[v] = NoView) =>
       /\ alive'[RegionOf(v)] = alive[RegionOf(v)]
       /\ mem'[RegionOf(v)] = mem[RegionOf(v)]
       /\ \A w \in Views \ {v} :
            /\ views'[w] = views[w]
            /\ Live(w) => Seen(w)' = Seen(w)]_vars

\* A view has just been dropped while another view that was read before is
\* still live over the same, still mapped, non-empty region.
C10_Witness ==
  /\ ret.op = "drop"
  /\ alive[ret.val]
  /\ mem[ret.val] # <<>>
  /\ \E w \in Views : Live(w) /\ RegionOf(w) = ret.val /\ first[w] # {}
====
